---- MODULE Spec2Model ----
\* Model of cli/jl_exports.h: the X-macro expansion of the curated export lists
\* into declarations, indirection slots and the name/address registries, and the
\* run-time use of those registries (table walk, slot patching, calls).
EXTENDS Naturals, Sequences, FiniteSets, TLC

\* ---------------------------------------------------------------- inputs
\* The build configuration and the curated lists of the two .inc files.
VARIABLES
    OS_WINDOWS,                        \* _OS_WINDOWS_ is defined
    HAVE_SSP,                          \* HAVE_SSP is defined
    JL_EXPORTED_DATA_POINTERS,
    JL_EXPORTED_DATA_POINTERS_WIN,
    JL_EXPORTED_DATA_SYMBOLS,
    JL_EXPORTED_DATA_SYMBOLS_WIN,
    JL_RUNTIME_EXPORTED_FUNCS,
    JL_RUNTIME_EXPORTED_FUNCS_WIN,
    JL_RUNTIME_EXPORTED_FUNC_ADDRS,
    JL_CODEGEN_EXPORTED_FUNCS

\* ---------------------------------------------------------------- program state
VARIABLES
    jl_runtime_exported_func_names,
    jl_codegen_exported_func_names,
    jl_runtime_exported_func_addrs,
    jl_codegen_exported_func_addrs,
    slot,                              \* slot id -> currentTarget
    pc, idx, visited,                  \* a consumer walking the tables
    patched, invoked                   \* the patcher's writes, the last call

inputs == <<OS_WINDOWS, HAVE_SSP,
            JL_EXPORTED_DATA_POINTERS, JL_EXPORTED_DATA_POINTERS_WIN,
            JL_EXPORTED_DATA_SYMBOLS, JL_EXPORTED_DATA_SYMBOLS_WIN,
            JL_RUNTIME_EXPORTED_FUNCS, JL_RUNTIME_EXPORTED_FUNCS_WIN,
            JL_RUNTIME_EXPORTED_FUNC_ADDRS, JL_CODEGEN_EXPORTED_FUNCS>>

tables == <<jl_runtime_exported_func_names, jl_codegen_exported_func_names,
            jl_runtime_exported_func_addrs, jl_codegen_exported_func_addrs>>

walk == <<pc, idx, visited>>

vars == <<inputs, tables, slot, walk, patched, invoked>>

\* ---------------------------------------------------------------- values
NULL == [kind |-> "null"]

\* #name : the string literal spelling the identifier
Stringify(name) == [kind |-> "str", chars |-> name]

\* a##b : token pasting
Paste(a, b) == a \o b

\* &name for a function symbol
AddrOfFunc(name) == [kind |-> "func", sym |-> name]

\* &name##_addr : the address of a slot
AddrOfSlot(id) == [kind |-> "slot", id |-> id]

\* A list macro FOO(XX) applies XX to each of its entries in declaration order:
\* below, FOO(XX) is written [k \in 1..Len(FOO) |-> XX(FOO[k])].
Range(s) == {s[k] : k \in 1..Len(s)}

\* ---------------------------------------------------------------- lines 8-26: data
\* #define XX(name)    JL_DLLEXPORT const void * name;
XX_DataPointer(name) ==
    [name |-> name, type |-> "const void *", linkage |-> "JL_DLLEXPORT"]

\* #define XX(name, type)    JL_DLLEXPORT type name;
XX_DataSymbol(name, type) ==
    [name |-> name, type |-> type, linkage |-> "JL_DLLEXPORT"]

DataPointerDecls ==
    [k \in 1..Len(JL_EXPORTED_DATA_POINTERS) |-> XX_DataPointer(JL_EXPORTED_DATA_POINTERS[k])]
    \o (IF OS_WINDOWS
        THEN [k \in 1..Len(JL_EXPORTED_DATA_POINTERS_WIN) |->
                 XX_DataPointer(JL_EXPORTED_DATA_POINTERS_WIN[k])]
        ELSE <<>>)

DataSymbolDecls ==
    [k \in 1..Len(JL_EXPORTED_DATA_SYMBOLS) |->
        XX_DataSymbol(JL_EXPORTED_DATA_SYMBOLS[k].name, JL_EXPORTED_DATA_SYMBOLS[k].type)]
    \o (IF OS_WINDOWS
        THEN [k \in 1..Len(JL_EXPORTED_DATA_SYMBOLS_WIN) |->
                 XX_DataSymbol(JL_EXPORTED_DATA_SYMBOLS_WIN[k].name, JL_EXPORTED_DATA_SYMBOLS_WIN[k].type)]
        ELSE <<>>)

\* #ifndef HAVE_SSP / JL_DLLEXPORT size_t __stack_chk_guard; / #endif
StackChkGuardNoIfndef ==
    <<[name |-> "__stack_chk_guard", type |-> "size_t", linkage |-> "JL_DLLEXPORT"]>>

StackChkGuard ==
    IF ~HAVE_SSP
    THEN <<[name |-> "__stack_chk_guard", type |-> "size_t",
            linkage |-> "JL_DLLEXPORT"]>>
    ELSE <<>>

\* every data definition the header emits, in order
DataDecls == DataPointerDecls \o DataSymbolDecls \o StackChkGuard

\* ---------------------------------------------------------------- lines 28-38: functions
\* #define XX(name)    JL_DLLEXPORT void name(void);
XX_FuncDecl(name) == [name |-> name, linkage |-> "JL_DLLEXPORT", callconv |-> "default"]

\* JL_DLLEXPORT void NTAPI __julia_personality(void);
PersonalityDecl ==
    [name |-> "__julia_personality", linkage |-> "JL_DLLEXPORT", callconv |-> "NTAPI"]

FuncDeclsNoIfdef ==
    [k \in 1..Len(JL_RUNTIME_EXPORTED_FUNCS) |-> XX_FuncDecl(JL_RUNTIME_EXPORTED_FUNCS[k])]
    \o [k \in 1..Len(JL_RUNTIME_EXPORTED_FUNCS_WIN) |->
           XX_FuncDecl(JL_RUNTIME_EXPORTED_FUNCS_WIN[k])]
       \o <<PersonalityDecl>>
    \o [k \in 1..Len(JL_CODEGEN_EXPORTED_FUNCS) |-> XX_FuncDecl(JL_CODEGEN_EXPORTED_FUNCS[k])]

FuncDecls ==
    [k \in 1..Len(JL_RUNTIME_EXPORTED_FUNCS) |-> XX_FuncDecl(JL_RUNTIME_EXPORTED_FUNCS[k])]
    \o (IF OS_WINDOWS
        THEN [k \in 1..Len(JL_RUNTIME_EXPORTED_FUNCS_WIN) |->
                 XX_FuncDecl(JL_RUNTIME_EXPORTED_FUNCS_WIN[k])]
             \o <<PersonalityDecl>>
        ELSE <<>>)
    \o [k \in 1..Len(JL_CODEGEN_EXPORTED_FUNCS) |-> XX_FuncDecl(JL_CODEGEN_EXPORTED_FUNCS[k])]

\* ---------------------------------------------------------------- lines 40-52: slots
\* #define XX(name)    JL_HIDDEN anonfunc * name##_addr = (anonfunc*)&name;
XX_SlotDefNullInit(name) ==
    [id |-> Paste(name, "_addr"), linkage |-> "JL_HIDDEN", init |-> NULL]

XX_SlotDef(name) ==
    [id |-> Paste(name, "_addr"), linkage |-> "JL_HIDDEN", init |-> AddrOfFunc(name)]

\* JL_HIDDEN anonfunc * __julia_personality_addr = NULL;
PersonalitySlotDefGeneric == XX_SlotDef("__julia_personality")

PersonalitySlotDef ==
    [id |-> "__julia_personality_addr", linkage |-> "JL_HIDDEN", init |-> NULL]

HiddenSlotDefsRuntimeOnly ==
    [k \in 1..Len(JL_RUNTIME_EXPORTED_FUNCS) |-> XX_SlotDef(JL_RUNTIME_EXPORTED_FUNCS[k])]
    \o (IF OS_WINDOWS
        THEN [k \in 1..Len(JL_RUNTIME_EXPORTED_FUNCS_WIN) |->
                 XX_SlotDef(JL_RUNTIME_EXPORTED_FUNCS_WIN[k])]
             \o <<PersonalitySlotDef>>
        ELSE <<>>)

HiddenSlotDefs ==
    [k \in 1..Len(JL_RUNTIME_EXPORTED_FUNCS) |-> XX_SlotDef(JL_RUNTIME_EXPORTED_FUNCS[k])]
    \o (IF OS_WINDOWS
        THEN [k \in 1..Len(JL_RUNTIME_EXPORTED_FUNCS_WIN) |->
                 XX_SlotDef(JL_RUNTIME_EXPORTED_FUNCS_WIN[k])]
             \o <<PersonalitySlotDef>>
        ELSE <<>>)
    \o [k \in 1..Len(JL_CODEGEN_EXPORTED_FUNCS) |-> XX_SlotDef(JL_CODEGEN_EXPORTED_FUNCS[k])]

\* #define XX(name)    JL_DLLEXPORT anonfunc * name##_addr;
\* a tentative definition: no initializer, so static storage starts null
XX_ExportedSlot(name) ==
    [id |-> Paste(name, "_addr"), linkage |-> "JL_DLLEXPORT", init |-> NULL]

ExportedSlotDefs == [k \in 1..Len(JL_RUNTIME_EXPORTED_FUNC_ADDRS) |->
                        XX_ExportedSlot(JL_RUNTIME_EXPORTED_FUNC_ADDRS[k])]

SlotDefs == HiddenSlotDefs \o ExportedSlotDefs

SlotIds == {d.id : d \in Range(SlotDefs)}

\* static storage after initialization: each slot holds its initializer
InitialSlots == [id \in SlotIds |-> (CHOOSE d \in Range(SlotDefs) : d.id = id).init]

\* ---------------------------------------------------------------- lines 54-87: registries
\* #define XX(name)    #name,
XX_Name(name) == Stringify(name)

\* "__julia_personality@16",
PersonalityName == [kind |-> "str", chars |-> "__julia_personality@16"]

\* #define XX(name)    #name"_impl",   (adjacent literals are concatenated)
XX_ImplNameNoSuffix(name) == Stringify(name)

XX_ImplName(name) == [kind |-> "str", chars |-> Stringify(name).chars \o "_impl"]

\* #define XX(name)    &name##_addr,
XX_Addr(name) == AddrOfSlot(Paste(name, "_addr"))

\* static const char *const jl_runtime_exported_func_names[]
RuntimeFuncNamesWinFirst ==
    (IF OS_WINDOWS
     THEN [k \in 1..Len(JL_RUNTIME_EXPORTED_FUNCS_WIN) |->
              XX_Name(JL_RUNTIME_EXPORTED_FUNCS_WIN[k])]
          \o <<PersonalityName>>
     ELSE <<>>)
    \o [k \in 1..Len(JL_RUNTIME_EXPORTED_FUNCS) |-> XX_Name(JL_RUNTIME_EXPORTED_FUNCS[k])]
    \o [k \in 1..Len(JL_RUNTIME_EXPORTED_FUNC_ADDRS) |->
           XX_Name(JL_RUNTIME_EXPORTED_FUNC_ADDRS[k])]
    \o <<NULL>>

RuntimeFuncNamesEarlyNull ==
    [k \in 1..Len(JL_RUNTIME_EXPORTED_FUNCS) |-> XX_Name(JL_RUNTIME_EXPORTED_FUNCS[k])]
    \o (IF OS_WINDOWS
        THEN [k \in 1..Len(JL_RUNTIME_EXPORTED_FUNCS_WIN) |->
                 XX_Name(JL_RUNTIME_EXPORTED_FUNCS_WIN[k])]
             \o <<PersonalityName>>
        ELSE <<>>)
    \o <<NULL>>
    \o [k \in 1..Len(JL_RUNTIME_EXPORTED_FUNC_ADDRS) |->
           XX_Name(JL_RUNTIME_EXPORTED_FUNC_ADDRS[k])]

RuntimeFuncNames ==
    [k \in 1..Len(JL_RUNTIME_EXPORTED_FUNCS) |-> XX_Name(JL_RUNTIME_EXPORTED_FUNCS[k])]
    \o (IF OS_WINDOWS
        THEN [k \in 1..Len(JL_RUNTIME_EXPORTED_FUNCS_WIN) |->
                 XX_Name(JL_RUNTIME_EXPORTED_FUNCS_WIN[k])]
             \o <<PersonalityName>>
        ELSE <<>>)
    \o [k \in 1..Len(JL_RUNTIME_EXPORTED_FUNC_ADDRS) |->
           XX_Name(JL_RUNTIME_EXPORTED_FUNC_ADDRS[k])]
    \o <<NULL>>

\* static const char *const jl_codegen_exported_func_names[]
CodegenFuncNames == [k \in 1..Len(JL_CODEGEN_EXPORTED_FUNCS) |->
                        XX_ImplName(JL_CODEGEN_EXPORTED_FUNCS[k])]
                    \o <<NULL>>

\* static anonfunc **const jl_runtime_exported_func_addrs[]
RuntimeFuncAddrsNoPersonality ==
    [k \in 1..Len(JL_RUNTIME_EXPORTED_FUNCS) |-> XX_Addr(JL_RUNTIME_EXPORTED_FUNCS[k])]
    \o (IF OS_WINDOWS
        THEN [k \in 1..Len(JL_RUNTIME_EXPORTED_FUNCS_WIN) |->
                 XX_Addr(JL_RUNTIME_EXPORTED_FUNCS_WIN[k])]
        ELSE <<>>)
    \o [k \in 1..Len(JL_RUNTIME_EXPORTED_FUNC_ADDRS) |->
           XX_Addr(JL_RUNTIME_EXPORTED_FUNC_ADDRS[k])]
    \o <<NULL>>

RuntimeFuncAddrsPersonalityFirst ==
    [k \in 1..Len(JL_RUNTIME_EXPORTED_FUNCS) |-> XX_Addr(JL_RUNTIME_EXPORTED_FUNCS[k])]
    \o (IF OS_WINDOWS
        THEN <<AddrOfSlot("__julia_personality_addr")>>
             \o [k \in 1..Len(JL_RUNTIME_EXPORTED_FUNCS_WIN) |->
                    XX_Addr(JL_RUNTIME_EXPORTED_FUNCS_WIN[k])]
        ELSE <<>>)
    \o [k \in 1..Len(JL_RUNTIME_EXPORTED_FUNC_ADDRS) |->
           XX_Addr(JL_RUNTIME_EXPORTED_FUNC_ADDRS[k])]
    \o <<NULL>>

RuntimeFuncAddrs ==
    [k \in 1..Len(JL_RUNTIME_EXPORTED_FUNCS) |-> XX_Addr(JL_RUNTIME_EXPORTED_FUNCS[k])]
    \o (IF OS_WINDOWS
        THEN [k \in 1..Len(JL_RUNTIME_EXPORTED_FUNCS_WIN) |->
                 XX_Addr(JL_RUNTIME_EXPORTED_FUNCS_WIN[k])]
             \o <<AddrOfSlot("__julia_personality_addr")>>
        ELSE <<>>)
    \o [k \in 1..Len(JL_RUNTIME_EXPORTED_FUNC_ADDRS) |->
           XX_Addr(JL_RUNTIME_EXPORTED_FUNC_ADDRS[k])]
    \o <<NULL>>

\* static anonfunc **const jl_codegen_exported_func_addrs[]
CodegenFuncAddrs == [k \in 1..Len(JL_CODEGEN_EXPORTED_FUNCS) |->
                        XX_Addr(JL_CODEGEN_EXPORTED_FUNCS[k])]
                    \o <<NULL>>

\* ---------------------------------------------------------------- the curated lists
\* The .inc files are inputs: every duplicate-free list over a small pool of
\* identifiers (a name listed twice would define a symbol twice and not build).
PoolDataPointers == {"jl_p1"}
PoolDataPointersWin == {"jl_pw1"}
PoolDataSymbols == {[name |-> "jl_s1", type |-> "int"]}
PoolDataSymbolsWin == {[name |-> "jl_sw1", type |-> "void *"]}
PoolRuntimeFuncs == {"jl_f1", "jl_f2"}
PoolRuntimeFuncsWin == {"jl_w1", "jl_w2"}
PoolRuntimeFuncAddrs == {"jl_a1"}
PoolCodegenFuncs == {"jl_g1", "jl_g2"}

Lists(S) ==
    UNION {{s \in [1..n -> S] : \A a, b \in 1..n : a # b => s[a] # s[b]} :
           n \in 0..Cardinality(S)}

\* ---------------------------------------------------------------- initial state
\* The state once the library is loaded: tables and slots hold their initializers.
Init ==
    /\ OS_WINDOWS \in BOOLEAN
    /\ HAVE_SSP \in BOOLEAN
    /\ JL_EXPORTED_DATA_POINTERS \in Lists(PoolDataPointers)
    /\ JL_EXPORTED_DATA_POINTERS_WIN \in Lists(PoolDataPointersWin)
    /\ JL_EXPORTED_DATA_SYMBOLS \in Lists(PoolDataSymbols)
    /\ JL_EXPORTED_DATA_SYMBOLS_WIN \in Lists(PoolDataSymbolsWin)
    /\ JL_RUNTIME_EXPORTED_FUNCS \in Lists(PoolRuntimeFuncs)
    /\ JL_RUNTIME_EXPORTED_FUNCS_WIN \in Lists(PoolRuntimeFuncsWin)
    /\ JL_RUNTIME_EXPORTED_FUNC_ADDRS \in Lists(PoolRuntimeFuncAddrs)
    /\ JL_CODEGEN_EXPORTED_FUNCS \in Lists(PoolCodegenFuncs)
    /\ jl_runtime_exported_func_names = RuntimeFuncNames
    /\ jl_codegen_exported_func_names = CodegenFuncNames
    /\ jl_runtime_exported_func_addrs = RuntimeFuncAddrs
    /\ jl_codegen_exported_func_addrs = CodegenFuncAddrs
    /\ slot = InitialSlots
    /\ pc = "runtime"
    /\ idx = 1
    /\ visited = [runtime |-> <<>>, codegen |-> <<>>]
    /\ patched = <<>>
    /\ invoked = NULL

\* ---------------------------------------------------------------- walking a registry
\* A consumer reads a name table from index 0 (here 1) up to the first null
\* element, taking the address at the same index: first the runtime registry,
\* then the codegen registry.
NamesOf(reg) ==
    IF reg = "runtime" THEN jl_runtime_exported_func_names
    ELSE jl_codegen_exported_func_names

AddrsOf(reg) ==
    IF reg = "runtime" THEN jl_runtime_exported_func_addrs
    ELSE jl_codegen_exported_func_addrs

Registries == {"runtime", "codegen"}

ReadEntry ==
    /\ pc \in Registries
    /\ idx <= Len(NamesOf(pc))
    /\ NamesOf(pc)[idx] # NULL
    /\ idx <= Len(AddrsOf(pc))
    /\ visited' = [visited EXCEPT
                     ![pc] = Append(@, [name |-> NamesOf(pc)[idx],
                                        addr |-> AddrsOf(pc)[idx]])]
    /\ idx' = idx + 1
    /\ UNCHANGED <<inputs, tables, slot, pc, patched, invoked>>

EndOfTable ==
    /\ pc \in Registries
    /\ idx <= Len(NamesOf(pc))
    /\ NamesOf(pc)[idx] = NULL
    /\ pc' = IF pc = "runtime" THEN "codegen" ELSE "done"
    /\ idx' = 1
    /\ UNCHANGED <<inputs, tables, slot, visited, patched, invoked>>

Next == ReadEntry \/ EndOfTable

Spec == Init /\ [][Next]_vars

\* the walk is one sequential loop: it keeps stepping while it can
FairSpec == Spec /\ WF_vars(Next)

\* ---------------------------------------------------------------- patching and calling
\* at most this many distinct registry names are patched in one run
MaxPatched == 2

\* targets a patcher may store: code that is none of the curated symbols
PatchTargets == {AddrOfFunc("jit_code_1"), AddrOfFunc("jit_code_2")}

\* *addresses[k] = t, for the entry the patcher resolved by names[k]
PatcherWrite(reg, k, t) ==
    /\ k <= Len(NamesOf(reg))
    /\ k <= Len(AddrsOf(reg))
    /\ NamesOf(reg)[k] # NULL
    /\ AddrsOf(reg)[k] # NULL
    /\ AddrsOf(reg)[k].id \in DOMAIN slot
    /\ \/ NamesOf(reg)[k].chars \in DOMAIN patched
       \/ Cardinality(DOMAIN patched) < MaxPatched
    /\ slot' = [slot EXCEPT ![AddrsOf(reg)[k].id] = t]
    /\ patched' = (NamesOf(reg)[k].chars :> t) @@ patched
    /\ UNCHANGED <<inputs, tables, walk, invoked>>

\* the functions the public library exports for the runtime-exported category
RuntimeFuncs ==
    Range(JL_RUNTIME_EXPORTED_FUNCS)
    \cup (IF OS_WINDOWS THEN Range(JL_RUNTIME_EXPORTED_FUNCS_WIN) ELSE {})

\* calling exported function `name` jumps through its slot name##_addr
Call(name) ==
    /\ Paste(name, "_addr") \in DOMAIN slot
    /\ invoked' = [fn |-> name, target |-> slot[Paste(name, "_addr")]]
    /\ UNCHANGED <<inputs, tables, slot, walk, patched>>

Patch ==
    \E reg \in Registries :
        \E k \in 1..Len(AddrsOf(reg)), t \in PatchTargets : PatcherWrite(reg, k, t)

CallExported == \E name \in RuntimeFuncs : Call(name)

NextPatch == Patch \/ CallExported

\* the data lists do not reach the slots or the registries: they are held full
InitPatch ==
    /\ Init
    /\ HAVE_SSP
    /\ Len(JL_EXPORTED_DATA_POINTERS) = 1
    /\ Len(JL_EXPORTED_DATA_POINTERS_WIN) = 1
    /\ Len(JL_EXPORTED_DATA_SYMBOLS) = 1
    /\ Len(JL_EXPORTED_DATA_SYMBOLS_WIN) = 1

PatchSpec == InitPatch /\ [][NextPatch]_vars

\* ---------------------------------------------------------------- properties
\* values as a reader of the tables sees them
Lit(chars) == [kind |-> "str", chars |-> chars]

SlotPtr(id) == [kind |-> "slot", id |-> id]

HasSuffix(s, suf) ==
    /\ Len(s) >= Len(suf)
    /\ SubSeq(s, Len(s) - Len(suf) + 1, Len(s)) = suf

StripSuffix(s, suf) == IF HasSuffix(s, suf) THEN SubSeq(s, 1, Len(s) - Len(suf)) ELSE s

\* the name a registry publishes for the symbol that owns slot `id`
PublicNameOfSlot(reg, id) ==
    LET sym == StripSuffix(id, "_addr")
    IN  IF reg = "codegen" THEN sym \o "_impl"
        ELSE IF sym = "__julia_personality" THEN "__julia_personality@16"
        ELSE sym

WinFuncs == IF OS_WINDOWS THEN JL_RUNTIME_EXPORTED_FUNCS_WIN ELSE <<>>

\* C1: in both registries the name table and the address table have the same
\* length, each ends with the null sentinel, and at every index before it the
\* name is the public name of the symbol whose slot the address points to.
C1_ParallelTables ==
    \A reg \in Registries :
        LET n == NamesOf(reg)
            a == AddrsOf(reg)
        IN  /\ Len(n) = Len(a)
            /\ Len(n) >= 1
            /\ n[Len(n)] = NULL
            /\ a[Len(a)] = NULL
            /\ \A i \in 1..(Len(n) - 1) :
                   /\ n[i].kind = "str"
                   /\ a[i].kind = "slot"
                   /\ n[i].chars = PublicNameOfSlot(reg, a[i].id)

C1_Witness ==
    /\ pc = "done"
    /\ OS_WINDOWS
    /\ Len(jl_runtime_exported_func_names) = 7
    /\ Len(jl_codegen_exported_func_names) = 3

\* C2 as stated: each registry is the primary list, then on Windows the
\* platform-specific entries, then directly the sentinel.
C2_NothingBeforeSentinel ==
    LET F == JL_RUNTIME_EXPORTED_FUNCS
        W == WinFuncs
        P == IF OS_WINDOWS THEN <<"__julia_personality">> ELSE <<>>
        n == jl_runtime_exported_func_names
        a == jl_runtime_exported_func_addrs
    IN  /\ Len(n) = Len(F) + Len(W) + Len(P) + 1
        /\ Len(a) = Len(F) + Len(W) + Len(P) + 1
        /\ \A i \in 1..Len(F) :
               n[i] = Lit(F[i]) /\ a[i] = SlotPtr(F[i] \o "_addr")
        /\ \A i \in 1..Len(W) :
               /\ n[Len(F) + i] = Lit(W[i])
               /\ a[Len(F) + i] = SlotPtr(W[i] \o "_addr")

\* C2 amended: the runtime registry is the primary list in declaration order,
\* then on Windows the Windows-only list in declaration order and the
\* personality entry, then the JL_RUNTIME_EXPORTED_FUNC_ADDRS entries in
\* declaration order, then the sentinel; the codegen registry is the codegen
\* list in declaration order followed directly by the sentinel.
C2_DeclarationOrder ==
    LET F == JL_RUNTIME_EXPORTED_FUNCS
        W == WinFuncs
        P == IF OS_WINDOWS THEN <<"__julia_personality">> ELSE <<>>
        A == JL_RUNTIME_EXPORTED_FUNC_ADDRS
        G == JL_CODEGEN_EXPORTED_FUNCS
        n == jl_runtime_exported_func_names
        a == jl_runtime_exported_func_addrs
        gn == jl_codegen_exported_func_names
        ga == jl_codegen_exported_func_addrs
        base == Len(F) + Len(W) + Len(P)
    IN  /\ Len(n) = base + Len(A) + 1
        /\ Len(a) = base + Len(A) + 1
        /\ \A i \in 1..Len(F) :
               n[i] = Lit(F[i]) /\ a[i] = SlotPtr(F[i] \o "_addr")
        /\ \A i \in 1..Len(W) :
               /\ n[Len(F) + i] = Lit(W[i])
               /\ a[Len(F) + i] = SlotPtr(W[i] \o "_addr")
        /\ \A i \in 1..Len(P) :
               /\ n[Len(F) + Len(W) + i] = Lit("__julia_personality@16")
               /\ a[Len(F) + Len(W) + i] = SlotPtr(P[i] \o "_addr")
        /\ \A i \in 1..Len(A) :
               /\ n[base + i] = Lit(A[i])
               /\ a[base + i] = SlotPtr(A[i] \o "_addr")
        /\ n[Len(n)] = NULL /\ a[Len(a)] = NULL
        /\ Len(gn) = Len(G) + 1
        /\ Len(ga) = Len(G) + 1
        /\ \A i \in 1..Len(G) :
               ga[i] = SlotPtr(G[i] \o "_addr") /\ gn[i] = Lit(G[i] \o "_impl")
        /\ gn[Len(gn)] = NULL /\ ga[Len(ga)] = NULL

C2_Witness ==
    /\ pc = "done"
    /\ OS_WINDOWS
    /\ Len(JL_RUNTIME_EXPORTED_FUNCS) = 2
    /\ Len(JL_RUNTIME_EXPORTED_FUNCS_WIN) = 2
    /\ Len(JL_RUNTIME_EXPORTED_FUNC_ADDRS) = 1
    /\ Len(visited.runtime) = 6

\* C3: every codegen registry name is the curated name with "_impl" appended,
\* and every runtime registry name is a curated name (or the decorated
\* personality name) as written, without that suffix.
C3_ImplSuffix ==
    /\ Len(jl_codegen_exported_func_names) = Len(JL_CODEGEN_EXPORTED_FUNCS) + 1
    /\ \A i \in 1..Len(JL_CODEGEN_EXPORTED_FUNCS) :
           jl_codegen_exported_func_names[i]
               = Lit(JL_CODEGEN_EXPORTED_FUNCS[i] \o "_impl")
    /\ \A i \in 1..(Len(jl_runtime_exported_func_names) - 1) :
           LET e == jl_runtime_exported_func_names[i]
           IN  /\ e.kind = "str"
               /\ e.chars \in Range(JL_RUNTIME_EXPORTED_FUNCS)
                              \cup Range(JL_RUNTIME_EXPORTED_FUNCS_WIN)
                              \cup Range(JL_RUNTIME_EXPORTED_FUNC_ADDRS)
                              \cup {"__julia_personality@16"}
               /\ ~HasSuffix(e.chars, "_impl")

C3_Witness ==
    /\ pc = "done"
    /\ Len(visited.codegen) = 2
    /\ Len(visited.runtime) >= 4

\* C4: the slot of every runtime-exported function that no patcher has written
\* holds the address of the function symbol of the same name; in particular
\* every such slot does right after static initialization.
C4_InitialTarget ==
    \A name \in RuntimeFuncs :
        name \notin DOMAIN patched =>
            /\ Paste(name, "_addr") \in DOMAIN slot
            /\ slot[Paste(name, "_addr")] = [kind |-> "func", sym |-> name]

C4_Witness ==
    /\ patched = <<>>
    /\ invoked # NULL
    /\ OS_WINDOWS
    /\ Cardinality(RuntimeFuncs) = 4

\* the target the patcher last stored under a public name, else the function
ExpectedTarget(name) ==
    IF name \in DOMAIN patched THEN patched[name] ELSE [kind |-> "func", sym |-> name]

\* C5: a step never changes a registry table or the set of slots; a slot's
\* target changes only when the patcher stores a target through the registry
\* entry for that slot's name; and a call of an exported runtime function
\* lands on what the patcher last stored for that name, or on the initial
\* implementation when nothing was stored.
C5_PatchAndCall ==
    [][/\ tables' = tables
       /\ DOMAIN slot' = DOMAIN slot
       /\ \A id \in DOMAIN slot :
              slot'[id] # slot[id] =>
                  \E reg \in Registries :
                      LET name == PublicNameOfSlot(reg, id)
                      IN  /\ name \in DOMAIN patched'
                          /\ patched'[name] = slot'[id]
                          /\ Lit(name) \in Range(NamesOf(reg))
       /\ invoked' # invoked =>
              /\ invoked'.fn \in RuntimeFuncs
              /\ invoked'.target = ExpectedTarget(invoked'.fn)]_vars

C5_Witness ==
    /\ invoked # NULL
    /\ invoked.fn \in DOMAIN patched
    /\ invoked.target = patched[invoked.fn]
    /\ invoked.target \in PatchTargets
    /\ Cardinality(DOMAIN patched) = 2

\* names of the Windows-only curated lists and of the personality routine
WinOnlyNames ==
    Range(JL_EXPORTED_DATA_POINTERS_WIN)
    \cup {e.name : e \in Range(JL_EXPORTED_DATA_SYMBOLS_WIN)}
    \cup Range(JL_RUNTIME_EXPORTED_FUNCS_WIN)
    \cup {"__julia_personality"}

TableElems ==
    Range(jl_runtime_exported_func_names) \cup Range(jl_codegen_exported_func_names)
    \cup Range(jl_runtime_exported_func_addrs) \cup Range(jl_codegen_exported_func_addrs)

\* C6: on a non-Windows build no Windows-only name, no __julia_personality
\* declaration or slot and no "__julia_personality@16" is in any declaration,
\* slot or table; on a Windows build every one of them is.
C6_WindowsOnly ==
    /\ ~OS_WINDOWS =>
           /\ \A d \in Range(DataDecls) \cup Range(FuncDecls) : d.name \notin WinOnlyNames
           /\ \A d \in Range(SlotDefs) : StripSuffix(d.id, "_addr") \notin WinOnlyNames
           /\ \A id \in DOMAIN slot : StripSuffix(id, "_addr") \notin WinOnlyNames
           /\ \A e \in TableElems :
                  /\ e.kind = "str" =>
                         e.chars \notin WinOnlyNames \cup {"__julia_personality@16"}
                  /\ e.kind = "slot" => StripSuffix(e.id, "_addr") \notin WinOnlyNames
    /\ OS_WINDOWS =>
           /\ \A p \in Range(JL_EXPORTED_DATA_POINTERS_WIN) :
                  \E d \in Range(DataDecls) : d.name = p
           /\ \A e \in Range(JL_EXPORTED_DATA_SYMBOLS_WIN) :
                  \E d \in Range(DataDecls) : d.name = e.name /\ d.type = e.type
           /\ \A w \in Range(JL_RUNTIME_EXPORTED_FUNCS_WIN) \cup {"__julia_personality"} :
                  /\ \E d \in Range(FuncDecls) : d.name = w
                  /\ \E d \in Range(SlotDefs) : d.id = w \o "_addr"
                  /\ w \o "_addr" \in DOMAIN slot
                  /\ SlotPtr(w \o "_addr") \in Range(jl_runtime_exported_func_addrs)
           /\ \A w \in Range(JL_RUNTIME_EXPORTED_FUNCS_WIN) :
                  Lit(w) \in Range(jl_runtime_exported_func_names)
           /\ Lit("__julia_personality@16") \in Range(jl_runtime_exported_func_names)

C6_Witness ==
    /\ pc = "done"
    /\ ~OS_WINDOWS
    /\ Len(JL_EXPORTED_DATA_POINTERS_WIN) = 1
    /\ Len(JL_EXPORTED_DATA_SYMBOLS_WIN) = 1
    /\ Len(JL_RUNTIME_EXPORTED_FUNCS_WIN) = 2
    /\ Len(visited.runtime) = 3

HiddenDefs == SelectSeq(SlotDefs, LAMBDA d : d.linkage = "JL_HIDDEN")

NamesWithoutHiddenSlot ==
    Range(JL_EXPORTED_DATA_POINTERS)
    \cup Range(JL_EXPORTED_DATA_POINTERS_WIN)
    \cup {e.name : e \in Range(JL_EXPORTED_DATA_SYMBOLS)}
    \cup {e.name : e \in Range(JL_EXPORTED_DATA_SYMBOLS_WIN)}

\* C7 as stated: the hidden slots are one per runtime-exported function and
\* no descriptor of another category has one.
C7_OnlyRuntimeFuncs ==
    /\ \A f \in RuntimeFuncs :
           Cardinality({k \in 1..Len(HiddenDefs) : HiddenDefs[k].id = f \o "_addr"}) = 1
    /\ \A g \in Range(JL_CODEGEN_EXPORTED_FUNCS) \cup NamesWithoutHiddenSlot :
           \A k \in 1..Len(HiddenDefs) : HiddenDefs[k].id # g \o "_addr"

\* C7 amended: the hidden, statically initialized slots are exactly one per
\* runtime-exported function (the Windows-only ones on a Windows build), one
\* per codegen-exported function and, on a Windows build, the personality
\* slot; no data pointer, data symbol or runtime-function-address descriptor
\* has a hidden slot.
C7_HiddenSlots ==
    LET owners == RuntimeFuncs \cup Range(JL_CODEGEN_EXPORTED_FUNCS)
                  \cup (IF OS_WINDOWS THEN {"__julia_personality"} ELSE {})
    IN  /\ {HiddenDefs[k].id : k \in 1..Len(HiddenDefs)} = {f \o "_addr" : f \in owners}
        /\ \A f \in owners :
               Cardinality({k \in 1..Len(HiddenDefs) : HiddenDefs[k].id = f \o "_addr"}) = 1
        /\ \A f \in owners : f \o "_addr" \in DOMAIN slot
        /\ \A g \in NamesWithoutHiddenSlot \cup Range(JL_RUNTIME_EXPORTED_FUNC_ADDRS) :
               \A k \in 1..Len(HiddenDefs) : HiddenDefs[k].id # g \o "_addr"

C7_Witness ==
    /\ pc = "done"
    /\ Len(JL_CODEGEN_EXPORTED_FUNCS) = 2
    /\ Len(JL_RUNTIME_EXPORTED_FUNCS) = 2
    /\ Len(JL_RUNTIME_EXPORTED_FUNC_ADDRS) = 1
    /\ Len(JL_EXPORTED_DATA_POINTERS) = 1
    /\ Len(JL_EXPORTED_DATA_SYMBOLS) = 1

GuardDefs == SelectSeq(DataDecls, LAMBDA d : d.name = "__stack_chk_guard")

\* C8 as stated: __stack_chk_guard is defined exactly when HAVE_SSP is not,
\* and then it is not an exported symbol.
C8_GuardInternal ==
    /\ (Len(GuardDefs) = 1) <=> ~HAVE_SSP
    /\ \A k \in 1..Len(GuardDefs) : GuardDefs[k].linkage # "JL_DLLEXPORT"

\* C8 amended: __stack_chk_guard is defined (once) exactly when HAVE_SSP is
\* not defined, and then it is declared JL_DLLEXPORT size_t, an exported
\* symbol like the curated data.
C8_GuardFallback ==
    /\ Len(GuardDefs) = (IF HAVE_SSP THEN 0 ELSE 1)
    /\ \A k \in 1..Len(GuardDefs) :
           GuardDefs[k].linkage = "JL_DLLEXPORT" /\ GuardDefs[k].type = "size_t"

C8_Witness ==
    /\ pc = "done"
    /\ ~HAVE_SSP
    /\ Len(GuardDefs) = 1

\* C9: on a Windows build the personality slot starts null, and the runtime
\* tables hold "__julia_personality@16" and the address of that slot at one
\* common index, which lies after every Windows-only runtime function entry.
C9_Personality ==
    OS_WINDOWS =>
        LET n == jl_runtime_exported_func_names
            a == jl_runtime_exported_func_addrs
            at == {k \in 1..Len(n) : n[k] = Lit("__julia_personality@16")}
        IN  /\ "__julia_personality_addr" \in DOMAIN slot
            /\ slot["__julia_personality_addr"] = NULL
            /\ \E d \in Range(SlotDefs) :
                   d.id = "__julia_personality_addr" /\ d.init = NULL
            /\ Cardinality(at) = 1
            /\ \A k \in at :
                   /\ k <= Len(a)
                   /\ a[k] = SlotPtr("__julia_personality_addr")
                   /\ \A j \in 1..Len(n) :
                          (n[j].kind = "str"
                           /\ n[j].chars \in Range(JL_RUNTIME_EXPORTED_FUNCS_WIN))
                              => j < k
            /\ \A j \in 1..Len(a) :
                   a[j] = SlotPtr("__julia_personality_addr") => j \in at

C9_Witness ==
    /\ pc = "done"
    /\ OS_WINDOWS
    /\ Len(JL_RUNTIME_EXPORTED_FUNCS_WIN) = 2
    /\ Len(JL_RUNTIME_EXPORTED_FUNCS) = 1
    /\ visited.runtime[4].name = Lit("__julia_personality@16")

NoNullBeforeSentinel(t) ==
    /\ Len(t) >= 1
    /\ t[Len(t)] = NULL
    /\ \A k \in 1..(Len(t) - 1) : t[k] # NULL

WalkedAll(reg) ==
    /\ Len(visited[reg]) = Len(NamesOf(reg)) - 1
    /\ \A k \in 1..Len(visited[reg]) :
           /\ visited[reg][k].name = NamesOf(reg)[k]
           /\ visited[reg][k].addr = AddrsOf(reg)[k]

C10_Tables ==
    /\ NoNullBeforeSentinel(jl_runtime_exported_func_names)
    /\ NoNullBeforeSentinel(jl_runtime_exported_func_addrs)
    /\ NoNullBeforeSentinel(jl_codegen_exported_func_names)
    /\ NoNullBeforeSentinel(jl_codegen_exported_func_addrs)
    /\ pc \in Registries => idx <= Len(NamesOf(pc))
    /\ pc \in {"codegen", "done"} => WalkedAll("runtime")
    /\ pc = "done" => WalkedAll("codegen")

\* C10: no table has a null element before its final sentinel, so the walk
\* that stops at the first null never leaves a table, finishes, and has then
\* visited every entry of both registries once, in order.
C10_WalkTerminates == []C10_Tables /\ <>(pc = "done")

C10_Witness ==
    /\ pc = "done"
    /\ Len(visited.runtime) = 6
    /\ Len(visited.codegen) = 0
    /\ Len(JL_CODEGEN_EXPORTED_FUNCS) = 0

====
